---------------------------- MODULE Spec2Model ----------------------------
(***************************************************************************)
(* A model of hw5code_liza.py: the function find_best_split and the class  *)
(* DecisionTree (fit, _fit_node, predict, _predict_node).                  *)
(*                                                                         *)
(* Numbers that the program holds as floats (the impurities, the scores,   *)
(* the thresholds, the click ratios) are exact rationals here, kept in     *)
(* lowest terms, so that two of them are equal exactly when the records    *)
(* are equal.  Arrays are sequences indexed from 1; the ranks that the     *)
(* program gives to categories start at 0 as in the program.               *)
(*                                                                         *)
(* Two specifications share the module.  SplitSpec calls find_best_split   *)
(* on every feature vector and label vector within the bounds.  Spec       *)
(* constructs a DecisionTree, fits it on a training set and predicts the   *)
(* training rows; the recursion of _fit_node is a stack of pending calls.  *)
(***************************************************************************)
EXTENDS Integers, Sequences, FiniteSets, TLC

VARIABLES
    pc,                 \* the position of the caller
    feature_vector,     \* find_best_split's first argument (SplitSpec)
    target_vector,      \* find_best_split's second argument (SplitSpec)
    result,             \* what find_best_split returned (SplitSpec)
    X,                  \* the training matrix, a sequence of rows
    y,                  \* the training labels
    feature_types,      \* self.feature_types
    max_depth,          \* self.max_depth: [isNone |-> TRUE] stands for None
    min_samples_split,  \* self.min_samples_split
    min_samples_leaf,   \* self.min_samples_leaf
    tree,               \* self._tree: node path -> node
    calls,              \* the pending calls of _fit_node, the next one first
    node_sub,           \* node path -> the samples its _fit_node call was given
    node_split,         \* node path -> the samples its mask `split` selects
    predicted           \* what predict(X) returned

vars == <<pc, feature_vector, target_vector, result, X, y, feature_types,
          max_depth, min_samples_split, min_samples_leaf, tree, calls,
          node_sub, node_split, predicted>>

splitVars == <<feature_vector, target_vector, result>>
treeVars == <<X, y, feature_types, max_depth, min_samples_split,
              min_samples_leaf, tree, calls, node_sub, node_split, predicted>>

---------------------------------------------------------------------------
(* Bounds of the model. *)

\* SplitSpec: the longest feature vector and the largest feature value.
MaxLen == 4
MaxFeatureValue == 3

\* Spec: the most samples and feature columns of a training set, the largest
\* feature value (or category token), and the largest settings of max_depth,
\* min_samples_split and min_samples_leaf.
MaxSamples == 3
MaxFeatures == 2
MaxValue == 2
MaxDepth == 1
MaxMinSamplesSplit == 3
MaxMinSamplesLeaf == 2

---------------------------------------------------------------------------
(* Exact rationals with a positive denominator.  Rat and Norm give them in  *)
(* lowest terms; the sums and products of the arithmetic are reduced by    *)
(* Norm where the program stores or compares them.                         *)

Abs(a) == IF a < 0 THEN -a ELSE a

RECURSIVE GCD(_, _)
GCD(a, b) == IF b = 0 THEN a ELSE GCD(b, a % b)

Rat(a, b) ==
    LET g == GCD(Abs(a), b)
    IN  [n |-> a \div g, d |-> b \div g]

RInt(a) == [n |-> a, d |-> 1]
Norm(p) == Rat(p.n, p.d)
RSub(p, q) == [n |-> p.n * q.d - q.n * p.d, d |-> p.d * q.d]
RMul(p, q) == [n |-> p.n * q.n, d |-> p.d * q.d]
RNeg(p) == [n |-> -p.n, d |-> p.d]
RLt(p, q) == p.n * q.d < q.n * p.d
RLe(p, q) == p.n * q.d <= q.n * p.d

---------------------------------------------------------------------------
(* find_best_split *)

\* The values of a vector.
Distinct(v) == {v[i] : i \in 1..Len(v)}

\* Whether position i comes before position j in np.argsort(v, kind='mergesort'):
\* by value, and by position among equal values (the sort is stable).
Before(v, i, j) == v[i] < v[j] \/ (v[i] = v[j] /\ i < j)

\* np.argsort(v, kind='mergesort'): the k-th entry is the position that has
\* k - 1 positions before it.
Argsort(v) ==
    [k \in 1..Len(v) |->
        CHOOSE i \in 1..Len(v) :
            Cardinality({j \in 1..Len(v) : Before(v, j, i)}) = k - 1]

\* np.cumsum
RECURSIVE CumSum(_, _)
CumSum(v, i) == IF i = 0 THEN 0 ELSE CumSum(v, i - 1) + v[i]

\* 1 - p**2 - (1 - p)**2
GiniImpurity(p) ==
    LET q == RSub(RInt(1), p)
    IN  RSub(RSub(RInt(1), RMul(p, p)), RMul(q, q))

\* gini_total with the sign of its first term lost.
GiniTotalSignLost(length, R_l, cumulative_target, total) ==
    LET R_r == length - R_l
        p_l == Rat(cumulative_target, R_l)
        p_r == Rat(total - cumulative_target, R_r)
    IN  Norm(RSub(RMul(Rat(R_l, length), GiniImpurity(p_l)),
                  RMul(Rat(R_r, length), GiniImpurity(p_r))))

\* gini_total[R_l - 1] = -R_l / length * gini_l - R_r / length * gini_r for
\* R_l < length: the score of the first R_l sorted samples against the others.
GiniTotal(length, R_l, cumulative_target, total) ==
    LET R_r == length - R_l
        p_l == Rat(cumulative_target, R_l)
        p_r == Rat(total - cumulative_target, R_r)
    IN  Norm(RSub(RMul(RNeg(Rat(R_l, length)), GiniImpurity(p_l)),
                  RMul(Rat(R_r, length), GiniImpurity(p_r))))

\* np.max over a non-empty sequence of rationals.
Max(s) == CHOOSE m \in {s[i] : i \in 1..Len(s)} :
              \A i \in 1..Len(s) : RLe(s[i], m)

\* The last position of the maximum.
ArgMaxLast(s) ==
    LET m == Max(s)
    IN  CHOOSE i \in 1..Len(s) :
            /\ s[i] = m
            /\ \A j \in (i + 1)..Len(s) : s[j] # m

\* np.argmax: the first position of the maximum.
ArgMax(s) ==
    LET m == Max(s)
    IN  CHOOSE i \in 1..Len(s) :
            /\ s[i] = m
            /\ \A j \in 1..(i - 1) : s[j] # m

\* find_best_split(fv, tv) for Len(fv) = Len(tv) >= 2.  The last entry of
\* gini_total (R_r = 0, a nan) is the one that ginis = gini_total[:-1] drops,
\* so the scores are computed for R_l in 1..length-1 only.
find_best_split(fv, tv) ==
    LET length == Len(fv)
        sorted_indices == Argsort(fv)
        feature_vector_sorted == [k \in 1..length |-> fv[sorted_indices[k]]]
        target_vector_sorted == [k \in 1..length |-> tv[sorted_indices[k]]]
        total == CumSum(target_vector_sorted, length)
        ginis == [i \in 1..(length - 1) |->
                     GiniTotal(length, i, CumSum(target_vector_sorted, i), total)]
        thresholds == [i \in 1..(length - 1) |->
                          Rat(feature_vector_sorted[i] + feature_vector_sorted[i + 1], 2)]
        gini_best_idx == ArgMax(ginis)
    IN  [thresholds |-> thresholds,
         ginis |-> ginis,
         threshold_best |-> thresholds[gini_best_idx],
         gini_best |-> Max(ginis)]

---------------------------------------------------------------------------
(* SplitSpec: find_best_split on every input within the bounds. *)

NoResult == [thresholds |-> <<>>, ginis |-> <<>>,
             threshold_best |-> RInt(0), gini_best |-> RInt(0)]

TreeIdle ==
    /\ X = <<>>
    /\ y = <<>>
    /\ feature_types = <<>>
    /\ max_depth = [isNone |-> TRUE, v |-> 0]
    /\ min_samples_split = 2
    /\ min_samples_leaf = 1
    /\ tree = <<>>
    /\ calls = <<>>
    /\ node_sub = <<>>
    /\ node_split = <<>>
    /\ predicted = <<>>

SplitInit ==
    /\ pc = "split_call"
    /\ \E length \in 2..MaxLen :
        /\ feature_vector \in [1..length -> 1..MaxFeatureValue]
        /\ target_vector \in [1..length -> {0, 1}]
    /\ result = NoResult
    /\ TreeIdle

CallFindBestSplit ==
    /\ pc = "split_call"
    /\ result' = find_best_split(feature_vector, target_vector)
    /\ pc' = "split_done"
    /\ UNCHANGED <<feature_vector, target_vector>>
    /\ UNCHANGED treeVars

SplitNext == CallFindBestSplit

SplitSpec == SplitInit /\ [][SplitNext]_vars

---------------------------------------------------------------------------
(* DecisionTree.  A node of self._tree is named by its path from the root, *)
(* a sequence of "left_child" / "right_child"; a node dictionary that is   *)
(* still {} has the type "unbuilt".  A set of samples is a set of row      *)
(* numbers of X, taken in ascending order as boolean-mask indexing keeps   *)
(* them.  Feature columns are numbered from 1.                             *)

Unbuilt == [type |-> "unbuilt"]

\* The rows of a sample set in the order sub_X holds them.
Ordered(S) ==
    [k \in 1..Cardinality(S) |->
        CHOOSE i \in S : Cardinality({j \in S : j < i}) = k - 1]

\* sub_y
SubY(S) ==
    LET rows == Ordered(S)
    IN  [k \in 1..Len(rows) |-> y[rows[k]]]

\* sub_X[:, feature]
Column(S, feature) ==
    LET rows == Ordered(S)
    IN  [k \in 1..Len(rows) |-> X[rows[k]][feature]]

\* np.all(v == v[0])
AllEqual(v) == \A k \in 1..Len(v) : v[k] = v[1]

FirstPos(col, c) == CHOOSE k \in 1..Len(col) :
                        col[k] = c /\ \A j \in 1..(k - 1) : col[j] # c

\* ratio[key] = current_click / current_count
Ratio(col, sub_y, key) ==
    Rat(Cardinality({k \in 1..Len(col) : col[k] = key /\ sub_y[k] = 1}),
        Cardinality({k \in 1..Len(col) : col[k] = key}))

\* Whether category a comes before category b in sorted_categories: by ratio,
\* and among equal ratios by the order in which Counter first met them
\* (sorted is stable, and a Counter keeps insertion order).
CategoryBefore(col, sub_y, a, b) ==
    \/ RLt(Ratio(col, sub_y, a), Ratio(col, sub_y, b))
    \/ /\ Ratio(col, sub_y, a) = Ratio(col, sub_y, b)
       /\ FirstPos(col, a) < FirstPos(col, b)

\* categories_map: category -> its position in sorted_categories, from 0.
CategoriesMap(col, sub_y) ==
    LET keys == Distinct(col)
    IN  [c \in keys |->
            Cardinality({b \in keys : CategoryBefore(col, sub_y, b, c)})]

\* feature_vector of the loop body, for a feature of either type.
FeatureVector(S, feature) ==
    IF feature_types[feature] = "real"
    THEN Column(S, feature)
    ELSE LET col == Column(S, feature)
             categories_map == CategoriesMap(col, SubY(S))
         IN  [k \in 1..Len(col) |-> categories_map[col[k]]]

\* The depth test with > for >=.
DepthStopLate(depth) == ~ max_depth.isNone /\ depth > max_depth.v

\* self.max_depth is not None and depth >= self.max_depth
DepthStop(depth) == ~ max_depth.isNone /\ depth >= max_depth.v

\* The three `continue` conditions of the loop body.
Skip(fvec, depth) ==
    \/ Len(fvec) < min_samples_split
    \/ AllEqual(fvec)
    \/ DepthStop(depth)

\* The condition under which a feature replaces the incumbent best split.
Accept(best, gini, n_left, n) ==
    \/ best.isNone
    \/ /\ RLt(best.gini_best, gini)
       /\ min_samples_leaf <= n_left
       /\ n_left <= n - min_samples_leaf

\* The ranks below the threshold kept in place of their categories.
CategoriesSplitRanks(S, feature, threshold) ==
    LET categories_map == CategoriesMap(Column(S, feature), SubY(S))
    IN  {categories_map[c] : c \in {b \in DOMAIN categories_map :
                                       RLt(RInt(categories_map[b]), threshold)}}

\* list(map(lambda x: x[0], filter(lambda x: x[1] < threshold, categories_map.items())))
CategoriesSplit(S, feature, threshold) ==
    LET categories_map == CategoriesMap(Column(S, feature), SubY(S))
    IN  {c \in DOMAIN categories_map : RLt(RInt(categories_map[c]), threshold)}

NoBest == [isNone |-> TRUE, feature_best |-> 0, gini_best |-> RInt(0),
           threshold_best |-> RInt(0), split |-> {}]

\* One pass of the loop body for `feature`, from the incumbent `best`.
LoopBody(S, depth, feature, best) ==
    LET fvec == FeatureVector(S, feature)
    IN  IF Skip(fvec, depth) THEN best
        ELSE LET r == find_best_split(fvec, SubY(S))
                 threshold == r.threshold_best
                 gini == r.gini_best
                 rows == Ordered(S)
                 possible_split ==
                     {rows[k] : k \in {j \in 1..Len(fvec) :
                                          RLt(RInt(fvec[j]), threshold)}}
             IN  IF Accept(best, gini, Cardinality(possible_split), Len(fvec))
                 THEN [isNone |-> FALSE,
                       feature_best |-> feature,
                       gini_best |-> gini,
                       split |-> possible_split,
                       threshold_best |->
                           IF feature_types[feature] = "real"
                           THEN threshold
                           ELSE CategoriesSplit(S, feature, threshold)]
                 ELSE best

\* The loop over the features, first to last.
RECURSIVE Loop(_, _, _, _)
Loop(S, depth, feature, best) ==
    IF feature > Len(feature_types) THEN best
    ELSE Loop(S, depth, feature + 1, LoopBody(S, depth, feature, best))

BestSplit(S, depth) == Loop(S, depth, 1, NoBest)

\* Counter(sub_y).most_common(1)[0][0]: the label counted most, and of two
\* labels counted equally the one that sub_y holds first.
MostCommon(sub_y) ==
    LET c1 == Cardinality({k \in 1..Len(sub_y) : sub_y[k] = 1})
        c0 == Len(sub_y) - c1
    IN  IF c1 > c0 THEN 1 ELSE IF c0 > c1 THEN 0 ELSE sub_y[1]

\* The nonterminal node _fit_node writes for the split `best`.
NonTerminal(best) ==
    IF feature_types[best.feature_best] = "real"
    THEN [type |-> "nonterminal", feature_split |-> best.feature_best,
          threshold |-> best.threshold_best]
    ELSE [type |-> "nonterminal", feature_split |-> best.feature_best,
          categories_split |-> best.threshold_best]

\* Whether _predict_node takes sample x to the left child of a nonterminal node.
RoutesLeft(x, node) ==
    IF feature_types[node.feature_split] = "real"
    THEN RLt(RInt(x[node.feature_split]), node.threshold)
    ELSE x[node.feature_split] \in node.categories_split

\* _predict_node(x, node) for the node at `path` of a fitted tree.
RECURSIVE PredictNode(_, _)
PredictNode(x, path) ==
    IF tree[path].type = "terminal" THEN tree[path].class
    ELSE IF RoutesLeft(x, tree[path])
         THEN PredictNode(x, Append(path, "left_child"))
         ELSE PredictNode(x, Append(path, "right_child"))

---------------------------------------------------------------------------
(* Spec: construct, fit, predict the training rows. *)

SplitIdle ==
    /\ feature_vector = <<>>
    /\ target_vector = <<>>
    /\ result = NoResult

\* The state after DecisionTree(feature_types, max_depth, min_samples_split,
\* min_samples_leaf), with the training set that fit will be given.
Init ==
    /\ pc = "constructed"
    /\ SplitIdle
    /\ \E N \in 1..MaxSamples, M \in 1..MaxFeatures :
        /\ X \in [1..N -> [1..M -> 1..MaxValue]]
        /\ y \in [1..N -> {0, 1}]
        /\ feature_types \in [1..M -> {"real", "categorical"}]
    /\ max_depth \in {[isNone |-> TRUE, v |-> 0]}
                     \cup {[isNone |-> FALSE, v |-> d] : d \in 0..MaxDepth}
    /\ min_samples_split \in 2..MaxMinSamplesSplit
    /\ min_samples_leaf \in 1..MaxMinSamplesLeaf
    /\ tree = (<<>> :> Unbuilt)
    /\ calls = <<>>
    /\ node_sub = <<>>
    /\ node_split = <<>>
    /\ predicted = <<>>

params == <<X, y, feature_types, max_depth, min_samples_split, min_samples_leaf>>

\* fit(X, y) up to its call of _fit_node on the root.
Fit ==
    /\ pc = "constructed"
    /\ tree' = (<<>> :> Unbuilt)
    /\ calls' = <<[node |-> <<>>, sub |-> DOMAIN X, depth |-> 0]>>
    /\ pc' = "fitting"
    /\ UNCHANGED <<node_sub, node_split, predicted, params, splitVars>>

\* _fit_node on an empty sub_y: sub_y[0] raises IndexError, which leaves fit.
FitNodeRaise ==
    /\ pc = "fitting"
    /\ calls # <<>>
    /\ Head(calls).sub = {}
    /\ pc' = "raised"
    /\ calls' = <<>>
    /\ node_sub' = (Head(calls).node :> {}) @@ node_sub
    /\ UNCHANGED <<tree, node_split, predicted, params, splitVars>>

\* _fit_node on labels that are all the same.
FitNodePure ==
    /\ pc = "fitting"
    /\ calls # <<>>
    /\ Head(calls).sub # {}
    /\ LET call == Head(calls)
           sub_y == SubY(call.sub)
       IN  /\ AllEqual(sub_y)
           /\ tree' = (call.node :> [type |-> "terminal", class |-> sub_y[1]]) @@ tree
           /\ node_sub' = (call.node :> call.sub) @@ node_sub
    /\ calls' = Tail(calls)
    /\ UNCHANGED <<pc, node_split, predicted, params, splitVars>>

\* _fit_node when the loop leaves feature_best None: a terminal node of the
\* most common label.
FitNodeMajority ==
    /\ pc = "fitting"
    /\ calls # <<>>
    /\ Head(calls).sub # {}
    /\ LET call == Head(calls)
           sub_y == SubY(call.sub)
       IN  /\ ~ AllEqual(sub_y)
           /\ BestSplit(call.sub, call.depth).isNone
           /\ tree' = (call.node :> [type |-> "terminal",
                                     class |-> MostCommon(sub_y)]) @@ tree
           /\ node_sub' = (call.node :> call.sub) @@ node_sub
    /\ calls' = Tail(calls)
    /\ UNCHANGED <<pc, node_split, predicted, params, splitVars>>

\* _fit_node when the loop found a split: the node becomes nonterminal, gets
\* two {} children, and the two recursive calls follow, the left one first.
FitNodeCommit ==
    /\ pc = "fitting"
    /\ calls # <<>>
    /\ Head(calls).sub # {}
    /\ LET call == Head(calls)
           best == BestSplit(call.sub, call.depth)
           left == Append(call.node, "left_child")
           right == Append(call.node, "right_child")
       IN  /\ ~ AllEqual(SubY(call.sub))
           /\ ~ best.isNone
           /\ tree' = (call.node :> NonTerminal(best)) @@ (left :> Unbuilt)
                          @@ (right :> Unbuilt) @@ tree
           /\ calls' = <<[node |-> left, sub |-> best.split,
                          depth |-> call.depth + 1],
                         [node |-> right, sub |-> call.sub \ best.split,
                          depth |-> call.depth + 1]>> \o Tail(calls)
           /\ node_split' = (call.node :> best.split) @@ node_split
           /\ node_sub' = (call.node :> call.sub) @@ node_sub
    /\ UNCHANGED <<pc, predicted, params, splitVars>>

\* fit returns once the root's _fit_node call has returned.
FitReturn ==
    /\ pc = "fitting"
    /\ calls = <<>>
    /\ pc' = "fitted"
    /\ UNCHANGED <<tree, calls, node_sub, node_split, predicted, params, splitVars>>

\* predict(X) on the training matrix.
Predict ==
    /\ pc = "fitted"
    /\ predicted' = [i \in DOMAIN X |-> PredictNode(X[i], <<>>)]
    /\ pc' = "predicted"
    /\ UNCHANGED <<tree, calls, node_sub, node_split, params, splitVars>>

Next ==
    \/ Fit
    \/ FitNodeRaise
    \/ FitNodePure
    \/ FitNodeMajority
    \/ FitNodeCommit
    \/ FitReturn
    \/ Predict

Spec == Init /\ [][Next]_vars

---------------------------------------------------------------------------
(* Properties of find_best_split, checked under SplitSpec. *)

\* The samples a threshold sends left: those with a feature value below it.
InducedLeft(fv, t) == {k \in 1..Len(fv) : RLt(RInt(fv[k]), t)}

Ones(tv, S) == Cardinality({k \in S : tv[k] = 1})

\* |S|/N * H(S) with H(S) = 1 - p1^2 - p0^2; an empty S weighs nothing.
WeightedH(tv, S) ==
    IF S = {} THEN RInt(0)
    ELSE LET n == Cardinality(S)
             p1 == Rat(Ones(tv, S), n)
             p0 == Rat(n - Ones(tv, S), n)
         IN  RMul(Rat(n, Len(tv)),
                  RSub(RSub(RInt(1), RMul(p1, p1)), RMul(p0, p0)))

\* Q = -(|L|/N)*H(L) - (|R|/N)*H(R) of the partition that threshold t induces.
InducedQ(fv, tv, t) ==
    LET L == InducedLeft(fv, t)
        R == (1..Len(fv)) \ L
    IN  Norm(RSub(RNeg(WeightedH(tv, L)), WeightedH(tv, R)))

SplitDone == pc = "split_done"

\* C4: every score ginis[i] is the Q of the partition that thresholds[i]
\* induces (left: feature value < thresholds[i]), repeated values included.
C4_ScoreOfInducedPartition ==
    SplitDone =>
        \A i \in 1..Len(result.ginis) :
            result.ginis[i] = InducedQ(feature_vector, target_vector, result.thresholds[i])

\* C5: with at least two distinct feature values there are as many thresholds
\* and scores as distinct values less one; the thresholds ascend, each is the
\* midpoint of two adjacent distinct values, and none leaves a side empty.
C5_ThresholdCount ==
    (SplitDone /\ Cardinality(Distinct(feature_vector)) >= 2) =>
        LET D == Distinct(feature_vector)
            th == result.thresholds
        IN  /\ Len(th) = Cardinality(D) - 1
            /\ Len(result.ginis) = Len(th)
            /\ \A i \in 1..(Len(th) - 1) : RLt(th[i], th[i + 1])
            /\ \A i \in 1..Len(th) :
                   /\ \E a, b \in D :
                          /\ a < b
                          /\ ~ \E c \in D : a < c /\ c < b
                          /\ th[i] = Rat(a + b, 2)
                   /\ InducedLeft(feature_vector, th[i]) # {}
                   /\ InducedLeft(feature_vector, th[i]) # 1..Len(feature_vector)

\* C6: gini_best is the greatest score, and threshold_best is the smallest
\* threshold among those whose score is the greatest.
C6_BestSplitTieBreak ==
    (SplitDone /\ Cardinality(Distinct(feature_vector)) >= 2) =>
        LET n == Len(result.ginis)
            best == {i \in 1..n : result.ginis[i] = result.gini_best}
        IN  /\ \A i \in 1..n : RLe(result.ginis[i], result.gini_best)
            /\ \E i \in best : result.threshold_best = result.thresholds[i]
            /\ \A i \in best : RLe(result.threshold_best, result.thresholds[i])

\* A call whose greatest score is reached at two different thresholds.
C6_Witness ==
    /\ SplitDone
    /\ Cardinality(Distinct(feature_vector)) >= 2
    /\ \E i, j \in 1..Len(result.ginis) :
           /\ result.ginis[i] = result.gini_best
           /\ result.ginis[j] = result.gini_best
           /\ RLt(result.thresholds[i], result.thresholds[j])
           /\ result.threshold_best = result.thresholds[i]

\* C8: every score, and so gini_best, lies in [-1, 0].
C8_ScoreRange ==
    (SplitDone /\ Cardinality(Distinct(feature_vector)) >= 2) =>
        /\ \A i \in 1..Len(result.ginis) :
               /\ RLe(RInt(-1), result.ginis[i])
               /\ RLe(result.ginis[i], RInt(0))
        /\ RLe(RInt(-1), result.gini_best)
        /\ RLe(result.gini_best, RInt(0))

\* A call that returns the most negative score a binary label vector can
\* give, -1/2, beside a greater one.
C8_Witness ==
    /\ SplitDone
    /\ Cardinality(Distinct(feature_vector)) >= 2
    /\ \E i \in 1..Len(result.ginis) : result.ginis[i] = Rat(-1, 2)
    /\ RLt(Rat(-1, 2), result.gini_best)

---------------------------------------------------------------------------
(* Properties of DecisionTree, checked under Spec. *)

NonTerminalNodes == {p \in DOMAIN tree : tree[p].type = "nonterminal"}

\* The samples a committed split sends right: sub_X[~split].
RightOf(p) == node_sub[p] \ node_split[p]

Pure(S) == \A i, j \in S : y[i] = y[j]

\* C1: every committed split sends at least min_samples_leaf samples of the
\* node to each child.
C1_LeafSizeBound ==
    \A p \in NonTerminalNodes :
        /\ Cardinality(node_split[p]) >= min_samples_leaf
        /\ Cardinality(RightOf(p)) >= min_samples_leaf

\* C2: the mask of every committed split and its complement divide the
\* node's samples into two non-empty sets, so that no call of _fit_node is
\* made on an empty subset.
C2_NonEmptyPartition ==
    /\ \A p \in NonTerminalNodes :
           /\ node_split[p] \subseteq node_sub[p]
           /\ node_split[p] # {}
           /\ RightOf(p) # {}
    /\ \A k \in 1..Len(calls) : calls[k].sub # {}

\* Rows with the same feature values carry the same label: the classes can be
\* separated by splits on the features.
Separable == \A i, j \in DOMAIN X : X[i] = X[j] => y[i] = y[j]

DefaultParameters ==
    /\ max_depth.isNone
    /\ min_samples_split = 2
    /\ min_samples_leaf = 1

\* C3: on separable data, with max_depth None and the default
\* min_samples_split and min_samples_leaf, fit completes and predict(X)
\* returns y.
C3_RoundTrip ==
    (Separable /\ DefaultParameters) =>
        /\ pc # "raised"
        /\ pc = "predicted" => predicted = y

\* C7: with max_depth set, no node lies deeper than max_depth, every built
\* node at depth max_depth is terminal, and no call of _fit_node is made
\* with a depth above max_depth.
C7_DepthBound ==
    ~ max_depth.isNone =>
        /\ \A p \in DOMAIN tree :
               /\ Len(p) <= max_depth.v
               /\ (Len(p) = max_depth.v /\ tree[p].type # "unbuilt")
                      => tree[p].type = "terminal"
        /\ \A k \in 1..Len(calls) :
               /\ calls[k].depth = Len(calls[k].node)
               /\ calls[k].depth <= max_depth.v

\* A node below the root, at depth max_depth, made terminal although its
\* labels differ and a feature tells its samples apart.
C7_Witness ==
    /\ ~ max_depth.isNone
    /\ \E p \in DOMAIN node_sub :
           /\ Len(p) = max_depth.v
           /\ Len(p) >= 1
           /\ tree[p].type = "terminal"
           /\ ~ Pure(node_sub[p])
           /\ \E f \in DOMAIN feature_types, i, j \in node_sub[p] :
                  X[i][f] # X[j][f]

\* C9: when fit has ended it has returned, with no node left unbuilt; and a
\* call of _fit_node on labels that are all the same made its node terminal
\* with that label.
C9_FitBuildsEveryNode ==
    /\ pc \in {"raised", "fitted", "predicted"} =>
           /\ pc # "raised"
           /\ \A p \in DOMAIN tree : tree[p].type \in {"terminal", "nonterminal"}
    /\ \A p \in DOMAIN node_sub :
           (node_sub[p] # {} /\ Pure(node_sub[p])) =>
               /\ tree[p].type = "terminal"
               /\ \A i \in node_sub[p] : tree[p].class = y[i]

\* C10: at every committed split, _predict_node takes a sample of the node
\* to the left child exactly when fit put it in the left partition; the
\* stored categories_split holds categories of the node only, and with a
\* category every category the node ranks below it; and predict gives a
\* training row the class of the leaf whose samples held it.
C10_RoutingAgreement ==
    /\ \A p \in NonTerminalNodes :
           /\ \A i \in node_sub[p] :
                  RoutesLeft(X[i], tree[p]) <=> i \in node_split[p]
           /\ feature_types[tree[p].feature_split] = "categorical" =>
                  LET col == Column(node_sub[p], tree[p].feature_split)
                      rank == CategoriesMap(col, SubY(node_sub[p]))
                  IN  /\ tree[p].categories_split \subseteq DOMAIN rank
                      /\ \A c \in tree[p].categories_split, b \in DOMAIN rank :
                             rank[b] < rank[c] => b \in tree[p].categories_split
    /\ pc = "predicted" =>
           \A i \in DOMAIN X, p \in DOMAIN tree :
               (tree[p].type = "terminal" /\ i \in node_sub[p])
                   => predicted[i] = tree[p].class

\* A fitted and predicted tree with a split on a categorical feature that
\* sends samples both ways, the category ranked first not being the smallest
\* token, and with a split on a real feature.
C10_Witness ==
    /\ pc = "predicted"
    /\ \E p \in NonTerminalNodes :
           /\ feature_types[tree[p].feature_split] = "categorical"
           /\ node_split[p] # {}
           /\ RightOf(p) # {}
           /\ \E c \in tree[p].categories_split :
                  \E i \in RightOf(p) : X[i][tree[p].feature_split] < c
    /\ \E p \in NonTerminalNodes :
           /\ feature_types[tree[p].feature_split] = "real"
           /\ node_split[p] # {}

===========================================================================
